---- MODULE Spec2Model ----
(***************************************************************************)
(* PhotoCard 2.0: the render job pipeline.                                 *)
(*                                                                         *)
(* The model covers the Job Store as the API exposes it (POST /jobs,       *)
(* PUT /jobs/:id in apps/api/src/index.js), the 'render' queue, and the    *)
(* worker's job handler with renderToFile (apps/worker/src/worker.js).     *)
(* Every await of the handler is one step; the outcome of a network call   *)
(* or of a browser call is chosen by the environment.                      *)
(***************************************************************************)
EXTENDS Integers, Sequences, FiniteSets, TLC

\* ---------------------------------------------------------------- bounds
\* Jobs created through POST /jobs during one run.
MaxJobs == 2
\* Times the queue hands an in-flight payload out again (a stalled job is
\* moved back to the wait list: at-least-once delivery).
MaxRedeliver == 1
\* Handler slots the model keeps; the worker uses `concurrency` of them.
MaxSlots == 2

\* ---------------------------------------------------- program constants
\* new Worker('render', handler, { concurrency: 1 })
concurrency == 1

JobIds == 1..MaxJobs
Slots == 1..MaxSlots

VARIABLES
    store,      \* the Job table: a sequence of rows, the job id is the index
    queue,      \* the 'render' queue's wait list: payloads (job ids) in order
    run,        \* per handler slot: the job handler's position and locals
    last,       \* per job id: how the queue settled its latest delivery
    stalls,     \* redeliveries made so far
    files,      \* file names present in OUTPUT_DIR
    norm,       \* normalizeImageUrl applied once and twice to one input
    rt,         \* the renderToFile invocation under study: position and locals
    disk,       \* OUTPUT_DIR as renderToFile sees it: cache and output files
    net,        \* the fetches that brought a whole file, as a set
    browsers,   \* browser instances launched and not closed
    boot,       \* the worker's startup: createWorkerWithRetry and its caller
    doc,        \* templateHTML: the values interpolated and the document
    dl,         \* one GET /download request and what the API did with it
    cfg,        \* the portal page's API-base configuration and resolveApiBase
    script,     \* the API container's boot script
    ui          \* the portal page: its React state, timers and requests in flight

\* The variables of worker startup, the template, /download, the portal
\* and the API boot script.
ovars == <<boot, doc, dl, cfg, script, ui>>

\* The variables of the URL and renderToFile studies; the job pipeline
\* leaves them alone.
xvars == <<norm, rt, disk, net, browsers, ovars>>

\* The variables of the job pipeline and of the renderToFile studies.
pvars == <<store, queue, run, last, stalls, files>>
rvars == <<norm, rt, disk, net, browsers>>

vars == <<store, queue, run, last, stalls, files, xvars>>

\* ------------------------------------------------------------ job store
NoUrl == <<>>
NoFile == <<>>
NoError == ""

\* const fileName = `${id}.png`
FileName(id) == <<id, ".png">>

\* `${PUBLIC_BASE}/${outputFileName}`
PublicUrl(f) == <<"PUBLIC_BASE", "/">> \o f

\* prisma.job.create({ data: { ..., status: 'PENDING' } })
NewJob == [status |-> "PENDING", outputUrl |-> NoUrl, error |-> NoError]

\* Variant of ErrorBody: the status is sent under a key the API does not read.
ErrorBodyNoStatus == [status |-> "", outputFileName |-> NoFile]

\* The request bodies the handler sends to PUT /jobs/:id.
ProcessingBody == [status |-> "PROCESSING", outputFileName |-> NoFile]
DoneBody(f) == [status |-> "DONE", outputFileName |-> f]
ErrorBody == [status |-> "ERROR", outputFileName |-> NoFile]

\* Variant of PutJob: the update carries the status and drops the output URL.
PutJobStatusOnly(st, id, body) ==
    [st EXCEPT ![id].status = IF body.status # "" THEN body.status ELSE @]

\* app.put('/jobs/:id'): data.status when status is truthy, data.outputUrl
\* when outputFileName is truthy, then one prisma.job.update with data.
PutJob(st, id, body) ==
    [st EXCEPT ![id] =
        [status    |-> IF body.status # "" THEN body.status ELSE @.status,
         outputUrl |-> IF body.outputFileName # NoFile
                          THEN PublicUrl(body.outputFileName)
                          ELSE @.outputUrl,
         error     |-> @.error]]

\* What a fetch of PUT /jobs/:id can come to:
\*   ok       the update is applied and answered 2xx: fetch resolves
\*   rejected prisma.job.update throws, the API answers 500: fetch resolves
\*            (node-fetch does not throw on a non-2xx status)
\*   neterr   the request never reaches the API: fetch rejects
\*   lost     the update is applied but the response is lost: fetch rejects
PutOutcomes == {"ok", "rejected", "neterr", "lost"}
Applied(o) == o \in {"ok", "lost"}
Throws(o) == o \in {"neterr", "lost"}
Failed(o) == o \in {"rejected", "neterr", "lost"}

StoreAfter(st, id, body, o) == IF Applied(o) THEN PutJob(st, id, body) ELSE st

\* --------------------------------------------------------------- worker
\* A handler slot. pc is the handler's position; proc, launch, done, err and
\* renders record what this delivery has done so far; atResolve is the job's
\* stored status at the moment resolution began.
Idle ==
    [pc |-> "idle", job |-> 0, fileName |-> NoFile, threw |-> FALSE,
     proc |-> "none", launch |-> "none", done |-> "none", err |-> "none",
     renders |-> 0, atResolve |-> "none"]

Busy(s) == run[s].pc # "idle"
NumBusy == Cardinality({s \in Slots : Busy(s)})

\* Variant of CanReceive: the worker is created with concurrency 2.
CanReceiveTwo == NumBusy < 2

\* BullMQ starts a handler only while fewer than `concurrency` are running.
CanReceive == NumBusy < concurrency

\* Variant of EntryPc: the handler starts rendering without reporting first.
EntryPcSkipsReport == "resolve"

\* The first statement of the handler: the PROCESSING report.
EntryPc == "report_processing"

\* The outer try: a rejected fetch is caught by the catch block, a resolved
\* one (whatever its status) falls through to renderToFile.
AfterProcessingReport(o) == IF Throws(o) THEN "report_error" ELSE "resolve"

\* Variant of AfterDoneReport: a failed DONE report renders the job again.
AfterDoneReportRetries(o) == IF Failed(o) THEN "resolve" ELSE "return"

\* After the DONE report: a rejected fetch lands in the catch block.
AfterDoneReport(o) == IF Throws(o) THEN "report_error" ELSE "return"

\* Variant of ErrorReportEscapes: the ERROR report is not wrapped in try/catch.
ErrorReportUncaught(o) == Throws(o)

\* The ERROR report sits in its own try/catch: nothing escapes the handler.
ErrorReportEscapes(o) == FALSE

\* The job pipeline before the first request.
InitPipeline ==
    /\ store = <<>>
    /\ queue = <<>>
    /\ run = [s \in Slots |-> Idle]
    /\ last = [j \in JobIds |-> "none"]
    /\ stalls = 0
    /\ files = {}

\* Nothing normalized, no renderToFile invocation, an empty OUTPUT_DIR.
NormIdle == [pc |-> "idle", u |-> <<>>, once |-> <<>>, twice |-> <<>>]
NoRet ==
    [fn |-> "none", role |-> "none", arg |-> <<>>, val |-> <<>>, raised |-> FALSE,
     failed |-> FALSE, fetched |-> FALSE, env |-> "none",
     priorSame |-> FALSE, priorOther |-> FALSE]
RtIdle ==
    [pc |-> "idle", n |-> 0, id |-> 0, given |-> [news |-> <<>>, bg |-> <<>>],
     news |-> <<>>, bg |-> <<>>, ret |-> NoRet, failedFetch |-> FALSE,
     degraded |-> FALSE, shot |-> FALSE, broke |-> "none", report |-> "none"]
\* The worker process before its startup function has been called: the loop
\* index, and what the process has done so far (calls of new Worker, timers
\* awaited and their total duration, outcome of the latest call, exit code).
BootIdle ==
    [pc |-> "start", i |-> 0, attempts |-> 0, delays |-> 0, waited |-> 0,
     latest |-> "none", code |-> 0]

\* Nothing composed, no request made, no configuration read.
DocIdle ==
    [pc |-> "idle", headline |-> <<>>, backgroundUrl |-> <<>>, newsImageUrl |-> <<>>,
     html |-> <<>>]
DlIdle ==
    [pc |-> "idle", url |-> <<>>, drive |-> <<>>, env |-> "none", status |-> 0,
     via |-> "none", sent |-> 0]
Unset == [set |-> FALSE, val |-> <<>>]
CfgIdle ==
    [pc |-> "idle", client |-> FALSE, meta |-> Unset, win |-> Unset, env |-> Unset,
     base |-> <<>>, before |-> <<>>]

\* The boot script before its first connection check: the loop indexes and
\* what it has run so far.
ScriptIdle ==
    [pc |-> "wait_db", i |-> 0, g |-> 0, ok |-> FALSE, genOk |-> FALSE,
     checks |-> 0, gens |-> 0, migrations |-> 0, migrated |-> "none", started |-> 0]

\* No job object (latestJob === null).
NoJob == [id |-> 0, status |-> ""]

\* The portal page before it is mounted: the useState and useRef initial
\* values, no interval, nothing on the wire. polled and seen record, for the
\* job of the last submit, that it was created from this page and that a
\* poll response showed it DONE or ERROR.
UiIdle ==
    [pc |-> "idle", latestJob |-> NoJob, jobs |-> <<>>, showHistory |-> FALSE,
     submitting |-> FALSE, pollTimer |-> 0, timers |-> {}, wire |-> {},
     sent |-> 0, polled |-> 0, seen |-> FALSE]

InitOthers ==
    /\ boot = BootIdle
    /\ doc = DocIdle
    /\ dl = DlIdle
    /\ cfg = CfgIdle
    /\ script = ScriptIdle
    /\ ui = UiIdle

InitStudies ==
    /\ norm = NormIdle
    /\ rt = RtIdle
    /\ disk = {}
    /\ net = {}
    /\ browsers = 0
    /\ InitOthers

Init == InitPipeline /\ InitStudies

\* app.post('/jobs'): 400 without a headline; otherwise create the row as
\* PENDING, enqueue the payload when the queue exists and add succeeds, 201.
PostJobs(headline, enqueued) ==
    /\ Len(store) < MaxJobs
    /\ IF headline = ""
          THEN UNCHANGED <<store, queue>>
          ELSE /\ store' = Append(store, NewJob)
               /\ queue' = IF enqueued THEN Append(queue, Len(store) + 1) ELSE queue
    /\ UNCHANGED <<run, last, stalls, files, xvars>>

\* The queue hands the head of the wait list to the handler.
Receive ==
    /\ queue # <<>>
    /\ CanReceive
    /\ \E s \in Slots :
          /\ ~Busy(s)
          /\ \A t \in Slots : t < s => Busy(t)
          /\ run' = [run EXCEPT ![s] = [Idle EXCEPT !.pc = EntryPc, !.job = Head(queue)]]
    /\ queue' = Tail(queue)
    /\ UNCHANGED <<store, last, stalls, files, xvars>>

\* At-least-once delivery: the payload of a job whose handler is still
\* running is put back on the wait list (its lock expired).
Redeliver(j) ==
    /\ stalls < MaxRedeliver
    /\ \E s \in Slots : Busy(s) /\ run[s].job = j
    /\ \A i \in 1..Len(queue) : queue[i] # j
    /\ queue' = Append(queue, j)
    /\ stalls' = stalls + 1
    /\ UNCHANGED <<store, run, last, files, xvars>>

\* await fetch(PUT /jobs/:id, { status: 'PROCESSING' })
ReportProcessing(s, o) ==
    /\ run[s].pc = "report_processing"
    /\ store' = StoreAfter(store, run[s].job, ProcessingBody, o)
    /\ run' = [run EXCEPT ![s].pc = AfterProcessingReport(o), ![s].proc = o]
    /\ UNCHANGED <<queue, last, stalls, files, xvars>>

\* renderToFile up to the browser launch: the file name, normalization,
\* proxy fetch, prefetch and logo lookup. Failures in here are swallowed.
Resolve(s) ==
    /\ run[s].pc = "resolve"
    /\ run' = [run EXCEPT ![s].pc = "launch",
                          ![s].renders = @ + 1,
                          ![s].atResolve = store[run[s].job].status]
    /\ UNCHANGED <<store, queue, last, stalls, files, xvars>>

\* const browser = await chromium.launch(): a failure leaves renderToFile
\* as an exception and lands in the handler's catch block.
Launch(s, ok) ==
    /\ run[s].pc = "launch"
    /\ run' = [run EXCEPT ![s].pc = IF ok THEN "capture" ELSE "report_error",
                          ![s].launch = IF ok THEN "ok" ELSE "fail"]
    /\ UNCHANGED <<store, queue, last, stalls, files, xvars>>

\* newPage, setContent, the two asset waits, the settle delay, and
\* page.screenshot({ path: outPath }): the output file is written.
Capture(s, ok) ==
    /\ run[s].pc = "capture"
    /\ run' = [run EXCEPT ![s].pc = IF ok THEN "close" ELSE "report_error"]
    /\ files' = IF ok THEN files \cup {FileName(run[s].job)} ELSE files
    /\ UNCHANGED <<store, queue, last, stalls, xvars>>

\* await browser.close(); return fileName
Close(s, ok) ==
    /\ run[s].pc = "close"
    /\ run' = [run EXCEPT ![s].pc = IF ok THEN "report_done" ELSE "report_error",
                          ![s].fileName = IF ok THEN FileName(run[s].job) ELSE @]
    /\ UNCHANGED <<store, queue, last, stalls, files, xvars>>

\* await fetch(PUT /jobs/:id, { status: 'DONE', outputFileName: fileName })
ReportDone(s, o) ==
    /\ run[s].pc = "report_done"
    /\ store' = StoreAfter(store, run[s].job, DoneBody(run[s].fileName), o)
    /\ run' = [run EXCEPT ![s].pc = AfterDoneReport(o), ![s].done = o]
    /\ UNCHANGED <<queue, last, stalls, files, xvars>>

\* catch (e) { try { await fetch(PUT /jobs/:id, { status: 'ERROR' }) } catch (e2) {} }
ReportError(s, o) ==
    /\ run[s].pc = "report_error"
    /\ store' = StoreAfter(store, run[s].job, ErrorBody, o)
    /\ run' = [run EXCEPT ![s].pc = "return", ![s].err = o,
                          ![s].threw = ErrorReportEscapes(o)]
    /\ UNCHANGED <<queue, last, stalls, files, xvars>>

\* The handler's promise settles: the queue marks the job completed when it
\* resolved and failed when it rejected, and the slot is free again.
Settle(s) ==
    /\ run[s].pc = "return"
    /\ last' = [last EXCEPT ![run[s].job] =
                   IF run[s].threw THEN "failed" ELSE "completed"]
    /\ run' = [run EXCEPT ![s] = Idle]
    /\ UNCHANGED <<store, queue, stalls, files, xvars>>

HandlerStep ==
    \E s \in Slots :
        \/ \E o \in PutOutcomes : ReportProcessing(s, o)
        \/ Resolve(s)
        \/ \E ok \in BOOLEAN : Launch(s, ok)
        \/ \E ok \in BOOLEAN : Capture(s, ok)
        \/ \E ok \in BOOLEAN : Close(s, ok)
        \/ \E o \in PutOutcomes : ReportDone(s, o)
        \/ \E o \in PutOutcomes : ReportError(s, o)
        \/ Settle(s)

Next ==
    \/ \E h \in {"", "A"}, e \in BOOLEAN : PostJobs(h, e)
    \/ Receive
    \/ \E j \in JobIds : Redeliver(j)
    \/ HandlerStep

Spec == Init /\ [][Next]_vars

\* The same system over a queue that delivers every payload exactly once.
NextOnce ==
    \/ \E h \in {"", "A"}, e \in BOOLEAN : PostJobs(h, e)
    \/ Receive
    \/ HandlerStep

SpecOnce == Init /\ [][NextOnce]_vars

\* Every awaited call of a running handler eventually settles, and the queue
\* eventually hands a waiting payload to a free worker.
FairSpec == Spec /\ WF_vars(HandlerStep) /\ WF_vars(Receive)

\* The system in a healthy environment: the Job Store applies and answers
\* every report, and the browser launches, captures and closes.
HealthyStep ==
    \E s \in Slots :
        \/ ReportProcessing(s, "ok")
        \/ Resolve(s)
        \/ Launch(s, TRUE)
        \/ Capture(s, TRUE)
        \/ Close(s, TRUE)
        \/ ReportDone(s, "ok")
        \/ Settle(s)

NextHealthy ==
    \/ \E h \in {"", "A"}, e \in BOOLEAN : PostJobs(h, e)
    \/ Receive
    \/ \E j \in JobIds : Redeliver(j)
    \/ HealthyStep

FairHealthy ==
    Init /\ [][NextHealthy]_vars /\ WF_vars(HealthyStep) /\ WF_vars(Receive)

\* ------------------------------------------------------------- claims
Terminal == {"DONE", "ERROR"}
Rows == 1..Len(store)
InWindow(s) == Busy(s) /\ run[s].proc # "none"
TerminalIssued(s) == run[s].done # "none" \/ run[s].err # "none"

\* C1: a job whose stored status is DONE or ERROR never afterwards has a
\* different stored status.
C1_TerminalAbsorbing ==
    [][\A j \in Rows :
          store[j].status \in Terminal => store'[j].status = store[j].status]_vars

\* C2: every change of a job's stored status is PENDING -> PROCESSING or
\* PROCESSING -> DONE / ERROR; a terminal status is never stored over PENDING.
C2_StateMachine ==
    [][\A j \in Rows :
          store'[j].status # store[j].status =>
              \/ store[j].status = "PENDING" /\ store'[j].status = "PROCESSING"
              \/ store[j].status = "PROCESSING" /\ store'[j].status \in Terminal]_vars

\* C3: the PROCESSING windows of two deliveries to one worker process never
\* overlap, and a handler returns only after it has issued a terminal report,
\* so the next PROCESSING report comes after the previous terminal report.
C3_OneJobAtATime ==
    /\ \A s, t \in Slots : s # t => ~(InWindow(s) /\ InWindow(t))
    /\ \A s \in Slots : run[s].pc = "return" => TerminalIssued(s)

C3_Witness ==
    \E s \in Slots :
        /\ run[s].job = 2 /\ InWindow(s)
        /\ last[1] = "completed"

\* C4 (as stated): no resolution step of a job runs while that job's stored
\* status is still PENDING.
C4_NoResolutionWhilePending ==
    \A s \in Slots : run[s].atResolve # "PENDING"

\* C4 (amended): resolution begins only after the PROCESSING report of the
\* delivery was sent and answered, and when the store accepted that report
\* the stored status is PROCESSING at the moment resolution begins.
C4_ReportAwaitedBeforeResolution ==
    \A s \in Slots :
        run[s].atResolve # "none" =>
            /\ run[s].proc \in {"ok", "rejected"}
            /\ run[s].proc = "ok" => run[s].atResolve = "PROCESSING"

C4_Witness ==
    \E s \in Slots :
        run[s].pc = "launch" /\ run[s].proc = "ok" /\ run[s].atResolve = "PROCESSING"

\* C5: in the step in which the store accepts the DONE report of job id, the
\* row gets status DONE and outputUrl PUBLIC_BASE/{id}.png together, and the
\* outputUrl of a row never changes in a step that does not also store DONE.
C5_DoneWithOutputUrl ==
    [][\A j \in Rows :
          /\ (\E s \in Slots : /\ run[s].job = j
                               /\ run[s].pc = "report_done"
                               /\ run'[s].done = "ok")
                => /\ store'[j].status = "DONE"
                   /\ store'[j].outputUrl = <<"PUBLIC_BASE", "/", j, ".png">>
          /\ store'[j].outputUrl # store[j].outputUrl
                => /\ store'[j].status = "DONE"
                   /\ store'[j].outputUrl = <<"PUBLIC_BASE", "/", j, ".png">>]_vars

C5_Witness ==
    \E s \in Slots :
        /\ run[s].pc = "return" /\ run[s].done = "ok"
        /\ store[run[s].job].status = "DONE"
        /\ store[run[s].job].outputUrl = <<"PUBLIC_BASE", "/", run[s].job, ".png">>
        /\ FileName(run[s].job) \in files

\* C6: whenever ERROR is the stored status of a job, the job's record carries
\* a non-empty error field.
C6_ErrorHasSummary ==
    \A j \in Rows : store[j].status = "ERROR" => store[j].error # NoError

C8_FailedProcessingReportStillRenders ==
    \A s \in Slots :
        (Failed(run[s].proc) /\ run[s].pc \in {"report_error", "return"})
            => run[s].renders = 1

\* C9: each delivery runs renderToFile at most once, and after a failed
\* terminal report the handler only goes on to its catch block or returns
\* normally: it never starts the pipeline again and never rejects.
C9_TerminalReportFailureReturns ==
    \A s \in Slots :
        /\ run[s].renders <= 1
        /\ (Failed(run[s].done) \/ Failed(run[s].err))
              => /\ run[s].pc \in {"report_error", "return"}
                 /\ ~run[s].threw
        /\ Busy(s) => last[run[s].job] # "failed"

C9_Witness ==
    \E s \in Slots :
        /\ run[s].pc = "return" /\ run[s].renders = 1
        /\ run[s].done = "neterr" /\ run[s].err = "neterr"
        /\ ~run[s].threw

\* C10: no exception escapes the handler, every delivery is settled as
\* completed, a free slot holds nothing of the previous delivery, and a
\* waiting payload can be received whenever the worker is free.
C10_HandlerNeverThrows ==
    /\ \A s \in Slots : ~run[s].threw /\ (~Busy(s) => run[s] = Idle)
    /\ \A j \in JobIds : last[j] # "failed"
    /\ (NumBusy = 0 /\ queue # <<>>) => ENABLED Receive

C10_Witness ==
    \E s \in Slots :
        /\ run[s].job = 2 /\ run[s].pc = "report_done"
        /\ last[1] = "completed"
        /\ store[1].status = "PENDING"


\* ------------------------------------------------------------------
\* Image URLs.  A URL string is a sequence of tokens; a token is a piece
\* of the string that the code's tests (includes, match, replace, new
\* URL) never split.  The empty sequence is the empty or missing URL.
\* ------------------------------------------------------------------

MaxBody == 3

Schemes == {"https://", "http://", "ftp://", "file://"}
Hosts == {"drive.google.com", "dropbox.com", "example.com"}
QToks == {"?dl=0", "?dl=1", "?raw=1", "?id=", "?rlkey=K", "?export=view"}
AmpToks == {"&dl=0", "&id="}
SlashToks == {"/d/", "/view", "/uc", "/photo", "/output/"}
IdToks == {"A", "drive", "dropbox", "example"}
ExtToks == {".jpg", ".png"}
ApiHost == "api:4000"

\* The leading run of [a-zA-Z0-9_-] characters of a token.
IdPrefix(t) ==
    CASE t = "drive.google.com" -> <<"drive">>
      [] t = "dropbox.com" -> <<"dropbox">>
      [] t = "example.com" -> <<"example">>
      [] OTHER -> <<>>

\* u.includes(t)
Includes(u, t) == \E i \in 1..Len(u) : u[i] = t

\* u.includes('?')
HasQuery(u) == \E i \in 1..Len(u) : u[i] \in QToks

\* The longest run of [a-zA-Z0-9_-] characters of u from token i on.
RECURSIVE IdRun(_, _)
IdRun(u, i) ==
    IF i > Len(u) THEN <<>>
    ELSE IF u[i] \in IdToks THEN <<u[i]>> \o IdRun(u, i + 1)
    ELSE IdPrefix(u[i])

\* u.match(/\/d\/([a-zA-Z0-9_-]+)/): group 1 of the leftmost match, or
\* the empty sequence when there is none.
MatchD(u) ==
    LET hits == {i \in 1..Len(u) : u[i] = "/d/" /\ IdRun(u, i + 1) # <<>>}
    IN  IF hits = {} THEN <<>>
        ELSE IdRun(u, (CHOOSE i \in hits : \A k \in hits : i <= k) + 1)

\* new URL(u) does not throw.
Parses(u) == Len(u) >= 2 /\ u[1] \in Schemes /\ u[2] \in Hosts \cup {ApiHost}

\* Index of the last token of the host of a URL that parses.
HostEnd(u) ==
    LET stops == {i \in 3..Len(u) : u[i] \in SlashToks \cup QToks}
    IN  IF stops = {} THEN Len(u)
        ELSE (CHOOSE i \in stops : \A k \in stops : i <= k) - 1

\* parsed.hostname
Hostname(u) == SubSeq(u, 2, HostEnd(u))

\* Index of the token that opens the query string, 0 when there is none.
QueryStart(u) ==
    LET qs == {i \in (HostEnd(u) + 1)..Len(u) : u[i] \in QToks}
    IN  IF qs = {} THEN 0 ELSE CHOOSE i \in qs : \A k \in qs : i <= k

\* parsed.pathname (the empty sequence stands for "/")
Pathname(u) ==
    IF QueryStart(u) = 0 THEN SubSeq(u, HostEnd(u) + 1, Len(u))
    ELSE SubSeq(u, HostEnd(u) + 1, QueryStart(u) - 1)

\* The value of the query parameter that token p opens: up to the next "&".
ParamValue(u, p) ==
    LET amps == {i \in (p + 1)..Len(u) : u[i] \in AmpToks}
    IN  IF amps = {} THEN SubSeq(u, p + 1, Len(u))
        ELSE SubSeq(u, p + 1, (CHOOSE i \in amps : \A k \in amps : i <= k) - 1)

\* parsed.searchParams.get('id'): the first parameter named id, or the
\* empty sequence when there is none (an empty value is as falsy as null).
SearchParamId(u) ==
    LET q == QueryStart(u)
        ps == IF q = 0 THEN {}
              ELSE {p \in q..Len(u) : (p = q /\ u[p] = "?id=") \/ (p > q /\ u[p] = "&id=")}
    IN  IF ps = {} THEN <<>>
        ELSE ParamValue(u, CHOOSE p \in ps : \A k \in ps : p <= k)

\* u.replace(/\?dl=0/, '?raw=1'): the first occurrence only.
ReplaceFirst(u, from, to) ==
    LET hits == {i \in 1..Len(u) : u[i] = from}
    IN  IF hits = {} THEN u
        ELSE [u EXCEPT ![CHOOSE i \in hits : \A k \in hits : i <= k] = to]

DriveDirect(fileId) ==
    <<"https://", "drive.google.com", "/uc", "?export=view", "&id=">> \o fileId

normalizeImageUrl(u) ==
    IF u = <<>> THEN u
    ELSE IF Includes(u, "drive.google.com") /\ ~Parses(u) THEN u
    ELSE IF Includes(u, "drive.google.com")
            /\ (IF MatchD(u) # <<>> THEN MatchD(u) ELSE SearchParamId(u)) # <<>>
         THEN DriveDirect(IF MatchD(u) # <<>> THEN MatchD(u) ELSE SearchParamId(u))
    ELSE IF Includes(u, "dropbox.com")
         THEN IF HasQuery(u)
              THEN ReplaceFirst(ReplaceFirst(u, "?dl=0", "?raw=1"), "?dl=1", "?raw=1")
              ELSE u \o <<"?raw=1">>
    ELSE u


\* The URLs normalizeImageUrl is studied on: the empty URL, and a host,
\* with or without the scheme, followed by up to MaxBody further tokens.
BodyToks ==
    {"/d/", "A", "/view", ".jpg", "?dl=0", "?dl=1", "&dl=0", "?raw=1",
     "?id=", "&id=", "?rlkey=K", "drive.google.com", "dropbox.com"}
Bodies == UNION {[1..k -> BodyToks] : k \in 0..MaxBody}
UrlInputs ==
    {<<>>} \cup {<<"https://", h>> \o b : h \in Hosts, b \in Bodies}
           \cup {<<h>> \o b : h \in Hosts, b \in Bodies}

InitUrl ==
    /\ InitPipeline
    /\ norm \in {[pc |-> "given", u |-> x, once |-> <<>>, twice |-> <<>>] : x \in UrlInputs}
    /\ rt = RtIdle
    /\ disk = {}
    /\ net = {}
    /\ browsers = 0
    /\ InitOthers

\* renderToFile normalizes the URL of the payload.
Normalize ==
    /\ norm.pc = "given"
    /\ norm' = [norm EXCEPT !.pc = "once", !.once = normalizeImageUrl(norm.u)]
    /\ UNCHANGED <<store, queue, run, last, stalls, files, rt, disk, net, browsers, ovars>>

\* The normalized URL is normalized again.
Renormalize ==
    /\ norm.pc = "once"
    /\ norm' = [norm EXCEPT !.pc = "twice", !.twice = normalizeImageUrl(norm.once)]
    /\ UNCHANGED <<store, queue, run, last, stalls, files, rt, disk, net, browsers, ovars>>

NextUrl == Normalize \/ Renormalize

SpecUrl == InitUrl /\ [][NextUrl]_vars

\* ------------------------------------------------------------------
\* Properties of normalizeImageUrl
\* ------------------------------------------------------------------

\* Query parameter p of u is exactly name=value with nothing after the value.
IsFlag(u, p, first, later) ==
    /\ QueryStart(u) # 0
    /\ \/ p = QueryStart(u) /\ u[p] = first
       \/ p > QueryStart(u) /\ u[p] = later
    /\ ParamValue(u, p) = <<>>

CarriesDl0(u) == Parses(u) /\ \E p \in 1..Len(u) : IsFlag(u, p, "?dl=0", "&dl=0")
RequestsRaw(u) == Parses(u) /\ \E p \in 1..Len(u) : IsFlag(u, p, "?raw=1", "&raw=1")

\* The ids of the /d/<id>/ segments of the path of u.
RECURSIVE PlainRun(_, _)
PlainRun(u, i) ==
    IF i <= Len(u) /\ u[i] \in IdToks THEN <<u[i]>> \o PlainRun(u, i + 1) ELSE <<>>
PathEnd(u) == IF QueryStart(u) = 0 THEN Len(u) ELSE QueryStart(u) - 1
SegmentIds(u) ==
    {PlainRun(u, i + 1) : i \in {k \in (HostEnd(u) + 1)..PathEnd(u) :
        /\ u[k] = "/d/"
        /\ PlainRun(u, k + 1) # <<>>
        /\ k + 1 + Len(PlainRun(u, k + 1)) <= PathEnd(u)
        /\ u[k + 1 + Len(PlainRun(u, k + 1))] \in SlashToks}}

IsDriveHost(u) == Parses(u) /\ Hostname(u) = <<"drive.google.com">>
IsDropboxHost(u) == Parses(u) /\ Hostname(u) = <<"dropbox.com">>
IsOtherHost(u) == Parses(u) /\ Hostname(u) = <<"example.com">>

\* C16: normalizeImageUrl is idempotent: normalizing a normalized URL
\* returns it unchanged, for every URL.
C16_Idempotent ==
    norm.pc = "twice" => norm.twice = norm.once

\* C17: every drive-host URL with a /d/<id>/ path segment becomes the
\* direct form for that id, and every dropbox-host URL carrying a dl=0
\* query flag, wherever the flag sits, becomes a URL that no longer
\* carries dl=0 and requests raw content.
C17_ShareLinksRewritten ==
    norm.pc = "once" =>
        /\ (IsDriveHost(norm.u) /\ SegmentIds(norm.u) # {})
              => \E x \in SegmentIds(norm.u) : norm.once = DriveDirect(x)
        /\ (IsDropboxHost(norm.u) /\ CarriesDl0(norm.u))
              => (~CarriesDl0(norm.once) /\ RequestsRaw(norm.once))

\* C18: a URL whose host is neither the drive host nor the dropbox host
\* is returned unchanged, also when its path or query mentions
\* drive.google.com or dropbox.com.
C18_OtherHostsUnchanged ==
    (norm.pc = "once" /\ IsOtherHost(norm.u)) => norm.once = norm.u


\* ------------------------------------------------------------------
\* renderToFile: resource resolution, the cache in OUTPUT_DIR, the
\* /download proxy of the API, and the browser.
\* ------------------------------------------------------------------

MaxRenders == 2
MaxText == 2

\* path.extname of a path: its last token when that is an extension.
Ext(p) == IF p # <<>> /\ p[Len(p)] \in ExtToks THEN p[Len(p)] ELSE ""

\* crypto.createHash('md5').update(u).digest('hex'): one token per URL.
Md5(u) == <<ToString(u)>>

\* `${id}-${role}-${key}${ext}`
CacheName(id, role, key, ext) ==
    <<ToString(id), "-", role, "-">> \o key \o (IF ext = "" THEN <<>> ELSE <<ext>>)

\* `${API_BASE}/output/${encodeURIComponent(name)}`; the names above hold
\* no character that encodeURIComponent escapes.
LocalRef(name) == <<"http://", ApiHost, "/output/">> \o name

\* fs.existsSync(path.join(OUTPUT_DIR, name))
Exists(d, name) == \E f \in d : f.name = name

\* fs.createWriteStream(path) and the stream into it: the file is there
\* afterwards, whole or cut short.
Written(d, name, whole) ==
    {f \in d : f.name # name} \cup {[name |-> name, whole |-> whole]}

\* What a resolution function did: the value it returned or the fact
\* that it raised, whether it failed, whether it fetched, the file it wrote.
Res(val, raised, failed, fetched, file, whole) ==
    [val |-> val, raised |-> raised, failed |-> failed, fetched |-> fetched,
     file |-> file, whole |-> whole]

\* The catch block of a resolution function: return u.
NoCatch(r, u) == r
CatchReturnsUrl(r, u) ==
    IF r.raised THEN [r EXCEPT !.val = u, !.raised = FALSE] ELSE r

\* GET /download?drive=1&url=...: the status the API answers.  The url
\* travels through encodeURIComponent and the query parser, which give
\* back the string that went in.
ProxyOutcomes == {"neterr", "unconfigured", "upstream_down", "stream_error", "healthy"}
DownloadStatus(url, drive, o) ==
    IF url = <<>> THEN 400
    ELSE IF ~Parses(url) THEN 400
    ELSE IF url[1] \notin {"http://", "https://"} THEN 400
    ELSE IF Includes(Hostname(url), "drive.google.com") /\ drive
         THEN IF MatchD(Pathname(url)) = <<>> THEN 400
              ELSE IF o = "unconfigured" THEN 501
              ELSE IF o = "upstream_down" THEN 502
              ELSE 200
    ELSE IF o = "upstream_down" THEN 502 ELSE 200

fetchDriveViaApiIfNeeded(u, role, id, d, o) ==
    IF u = <<>> THEN Res(u, FALSE, FALSE, FALSE, <<>>, FALSE)
    ELSE CatchReturnsUrl(
        IF ~Parses(u) THEN Res(u, TRUE, TRUE, FALSE, <<>>, FALSE)
        ELSE IF ~Includes(Hostname(u), "drive.google.com")
             THEN Res(u, FALSE, FALSE, FALSE, <<>>, FALSE)
        ELSE LET fileId == IF MatchD(Pathname(u)) # <<>> THEN MatchD(Pathname(u))
                           ELSE IF SearchParamId(u) # <<>> THEN SearchParamId(u)
                           ELSE <<"Date.now()">>
                 ext == IF Ext(Pathname(u)) # "" THEN Ext(Pathname(u)) ELSE ".jpg"
                 localName == CacheName(id, role, fileId, ext)
             IN  IF Exists(d, localName)
                 THEN Res(LocalRef(localName), FALSE, FALSE, FALSE, <<>>, FALSE)
                 ELSE IF o = "neterr" THEN Res(u, TRUE, TRUE, TRUE, <<>>, FALSE)
                 ELSE IF DownloadStatus(u, TRUE, o) # 200
                      THEN Res(u, FALSE, TRUE, TRUE, <<>>, FALSE)
                 ELSE IF o = "stream_error"
                      THEN Res(u, TRUE, TRUE, TRUE, localName, FALSE)
                 ELSE Res(LocalRef(localName), FALSE, FALSE, TRUE, localName, TRUE),
        u)

\* fetch(u) of the prefetch: how it ends and the content-type it carries.
ContentTypes == {"image/jpeg", "image/png"}
FetchOutcomes ==
    {[kind |-> k, ct |-> c] : k \in {"neterr", "status404", "stream_error", "ok"},
                              c \in ContentTypes}
ContentTypeExt(ct) ==
    CASE ct = "image/jpeg" -> ".jpg"
      [] ct = "image/png" -> ".png"
      [] ct = "image/webp" -> ".webp"
      [] ct = "image/svg+xml" -> ".svg"
      [] OTHER -> ".jpg"

prefetchRemoteImage(u, role, id, d, o) ==
    IF u = <<>> THEN Res(u, FALSE, FALSE, FALSE, <<>>, FALSE)
    ELSE CatchReturnsUrl(
        IF u[1] = "file://" THEN Res(u, FALSE, FALSE, FALSE, <<>>, FALSE)
        ELSE IF ~Parses(u) THEN Res(u, TRUE, TRUE, FALSE, <<>>, FALSE)
        ELSE IF u[1] \notin {"http://", "https://"}
             THEN Res(u, FALSE, FALSE, FALSE, <<>>, FALSE)
        ELSE LET hash == Md5(u)
                 ext == Ext(Pathname(u))
                 localName == CacheName(id, role, hash, ext)
                 finalLocalName ==
                     CacheName(id, role, hash,
                               IF ext # "" THEN ext ELSE ContentTypeExt(o.ct))
             IN  IF Exists(d, localName)
                 THEN Res(LocalRef(localName), FALSE, FALSE, FALSE, <<>>, FALSE)
                 ELSE IF o.kind = "neterr" THEN Res(u, TRUE, TRUE, TRUE, <<>>, FALSE)
                 ELSE IF o.kind = "status404" THEN Res(u, FALSE, TRUE, TRUE, <<>>, FALSE)
                 ELSE IF o.kind = "stream_error"
                      THEN Res(u, TRUE, TRUE, TRUE, finalLocalName, FALSE)
                 ELSE Res(LocalRef(finalLocalName), FALSE, FALSE, TRUE, finalLocalName, TRUE),
        u)


\* The image URLs of the payloads renderToFile is studied on: none, a
\* page with and without a file extension, a drive share link, a drive
\* link without scheme (new URL throws), a URL that is not http(s).
PayloadUrls ==
    { <<>>,
      <<"https://", "example.com", "/photo", ".jpg">>,
      <<"https://", "example.com", "/photo">>,
      <<"https://", "drive.google.com", "/d/", "A", "/view">>,
      <<"drive.google.com", "/d/", "A">>,
      <<"ftp://", "example.com", "/photo", ".jpg">> }

\* A payload has one image only, or the same image in both places.
Payloads ==
    {p \in PayloadUrls \X PayloadUrls : p[1] = <<>> \/ p[2] = <<>> \/ p[1] = p[2]}

Url(role) == IF role = "news" THEN rt.news ELSE rt.bg
WithUrl(r, role, u) == IF role = "news" THEN [r EXCEPT !.news = u] ELSE [r EXCEPT !.bg = u]

\* The record of a successful fetch of u for a job and role.
Fetched(id, role, via, u) == [id |-> id, role |-> role, via |-> via, url |-> u]

\* What a call of a resolution function leaves in rt.ret.
Ret(fn, role, via, u, r, env) ==
    [fn |-> fn, role |-> role, arg |-> u, val |-> r.val, raised |-> r.raised,
     failed |-> r.failed, fetched |-> r.fetched, env |-> env,
     priorSame |-> Fetched(rt.id, role, via, u) \in net,
     priorOther |-> \E k \in JobIds \ {rt.id} : Fetched(k, role, via, u) \in net]

\* Where renderToFile goes on after a resolution call.  A raise of
\* fetchDriveViaApiIfNeeded would leave the outer try block, a raise of
\* prefetchRemoteImage only its own.
AfterFetchFails(r, next) == IF r.failed \/ r.raised THEN "threw" ELSE next
AfterDriveFetchGivesUp(r, next) == IF r.failed \/ r.raised THEN "launch" ELSE next
AfterDriveFetch(r, next) == IF r.raised THEN "launch" ELSE next
AfterPrefetch(r, next) == next

\* The handler calls renderToFile(job.data).
StartRender(id, newsImageUrl, backgroundUrl) ==
    /\ rt.pc \in {"idle", "reported"}
    /\ rt.n < MaxRenders
    /\ rt' = [RtIdle EXCEPT !.pc = "normalize_bg", !.n = rt.n + 1, !.id = id,
                            !.given = [news |-> newsImageUrl, bg |-> backgroundUrl],
                            !.news = newsImageUrl, !.bg = backgroundUrl]
    /\ UNCHANGED <<store, queue, run, last, stalls, files, norm, disk, net, browsers, ovars>>

NormalizeUrl(role, next) ==
    /\ rt.pc = "normalize_" \o role
    /\ rt' = [WithUrl(rt, role, normalizeImageUrl(Url(role))) EXCEPT
                !.pc = next,
                !.ret = [NoRet EXCEPT !.fn = "normalizeImageUrl", !.role = role,
                                      !.arg = Url(role),
                                      !.val = normalizeImageUrl(Url(role)),
                                      !.failed = Includes(Url(role), "drive.google.com")
                                                 /\ ~Parses(Url(role))]]
    /\ UNCHANGED <<store, queue, run, last, stalls, files, norm, disk, net, browsers, ovars>>

DriveFetch(role, next, o) ==
    /\ rt.pc = "drive_" \o role
    /\ IF Url(role) # <<>> /\ Includes(Url(role), "drive.google.com")
       THEN LET r == fetchDriveViaApiIfNeeded(Url(role), role, rt.id, disk, o)
            IN  /\ rt' = [WithUrl(rt, role, IF r.raised THEN Url(role) ELSE r.val) EXCEPT
                            !.pc = AfterDriveFetch(r, next),
                            !.ret = Ret("fetchDriveViaApiIfNeeded", role, "proxy", Url(role), r, o),
                            !.failedFetch = rt.failedFetch \/ (r.fetched /\ r.failed)]
                /\ disk' = IF r.file = <<>> THEN disk ELSE Written(disk, r.file, r.whole)
                /\ net' = IF r.fetched /\ ~r.failed
                          THEN net \cup {Fetched(rt.id, role, "proxy", Url(role))} ELSE net
       ELSE /\ rt' = [rt EXCEPT !.pc = next, !.ret = NoRet]
            /\ UNCHANGED <<disk, net>>
    /\ UNCHANGED <<store, queue, run, last, stalls, files, norm, browsers, ovars>>

Prefetch(role, next, o) ==
    /\ rt.pc = "prefetch_" \o role
    /\ IF Url(role) # <<>>
       THEN LET r == prefetchRemoteImage(Url(role), role, rt.id, disk, o)
            IN  /\ rt' = [WithUrl(rt, role, IF r.raised THEN Url(role) ELSE r.val) EXCEPT
                            !.pc = AfterPrefetch(r, next),
                            !.ret = Ret("prefetchRemoteImage", role, "direct", Url(role), r, o.kind),
                            !.failedFetch = rt.failedFetch \/ (r.fetched /\ r.failed)]
                /\ disk' = IF r.file = <<>> THEN disk ELSE Written(disk, r.file, r.whole)
                /\ net' = IF r.fetched /\ ~r.failed
                          THEN net \cup {Fetched(rt.id, role, "direct", Url(role))} ELSE net
       ELSE /\ rt' = [rt EXCEPT !.pc = next, !.ret = NoRet]
            /\ UNCHANGED <<disk, net>>
    /\ UNCHANGED <<store, queue, run, last, stalls, files, norm, browsers, ovars>>

\* const browser = await chromium.launch()
LaunchBrowser(ok) ==
    /\ rt.pc = "launch"
    /\ rt' = [rt EXCEPT !.pc = IF ok THEN "new_page" ELSE "threw", !.ret = NoRet,
                        !.broke = IF ok THEN "none" ELSE "launch"]
    /\ browsers' = IF ok THEN browsers + 1 ELSE browsers
    /\ UNCHANGED <<store, queue, run, last, stalls, files, norm, disk, net, ovars>>

\* const page = await browser.newPage(...)
NewPage(ok) ==
    /\ rt.pc = "new_page"
    /\ rt' = [rt EXCEPT !.pc = IF ok THEN "set_content" ELSE "threw",
                        !.broke = IF ok THEN "none" ELSE "new_page"]
    /\ UNCHANGED <<store, queue, run, last, stalls, files, norm, disk, net, browsers, ovars>>

\* Where renderToFile goes on after page.setContent or an image wait:
\* the catch block logs a warning and the next statement runs.
CaughtIsFatal(ok, next) == IF ok THEN next ELSE "threw"
AfterCaught(ok, next) == next

\* The step at this position is executed: setContent always, an image
\* wait only when the image URL is not empty.
Applies(at) ==
    CASE at = "wait_news" -> rt.news # <<>>
      [] at = "wait_bg" -> rt.bg # <<>>
      [] OTHER -> TRUE

\* page.setContent and the two image waits, each in its own try/catch.
CaughtStep(at, next, ok) ==
    /\ rt.pc = at
    /\ rt' = [rt EXCEPT !.pc = IF Applies(at) THEN AfterCaught(ok, next) ELSE next,
                        !.degraded = @ \/ (Applies(at) /\ ~ok)]
    /\ UNCHANGED <<store, queue, run, last, stalls, files, norm, disk, net, browsers, ovars>>

\* await page.waitForTimeout(300)
SettleDelay(ok) ==
    /\ rt.pc = "settle"
    /\ rt' = [rt EXCEPT !.pc = IF ok THEN "screenshot" ELSE "threw",
                        !.degraded = IF ok THEN @ ELSE FALSE,
                        !.broke = IF ok THEN "none" ELSE "settle"]
    /\ UNCHANGED <<store, queue, run, last, stalls, files, norm, disk, net, browsers, ovars>>

\* await page.screenshot({ path: outPath, type: 'png' })
Screenshot(ok) ==
    /\ rt.pc = "screenshot"
    /\ rt' = [rt EXCEPT !.pc = IF ok THEN "close" ELSE "threw", !.shot = ok,
                        !.degraded = FALSE,
                        !.broke = IF ok THEN "none" ELSE "screenshot"]
    /\ files' = IF ok THEN files \cup {FileName(rt.id)} ELSE files
    /\ UNCHANGED <<store, queue, run, last, stalls, norm, disk, net, browsers, ovars>>

\* await browser.close(); return fileName
CloseBrowser(ok) ==
    /\ rt.pc = "close"
    /\ rt' = [rt EXCEPT !.pc = IF ok THEN "returned" ELSE "threw",
                        !.broke = IF ok THEN "none" ELSE "close"]
    /\ browsers' = IF ok THEN browsers - 1 ELSE browsers
    /\ UNCHANGED <<store, queue, run, last, stalls, files, norm, disk, net, ovars>>

\* The handler reports what renderToFile did: DONE with the file name
\* it returned, ERROR when it threw.
ReportRender ==
    /\ rt.pc \in {"returned", "threw"}
    /\ rt' = [RtIdle EXCEPT !.pc = "reported", !.n = rt.n,
                        !.report = IF rt.pc = "returned"
                                   THEN DoneBody(FileName(rt.id)).status
                                   ELSE ErrorBody.status]
    /\ UNCHANGED <<store, queue, run, last, stalls, files, norm, disk, net, browsers, ovars>>

NextRes ==
    \/ \E id \in JobIds, p \in Payloads : StartRender(id, p[1], p[2])
    \/ NormalizeUrl("bg", "normalize_news")
    \/ NormalizeUrl("news", "drive_news")
    \/ \E o \in ProxyOutcomes : DriveFetch("news", "drive_bg", o)
    \/ \E o \in ProxyOutcomes : DriveFetch("bg", "prefetch_news", o)
    \/ \E o \in FetchOutcomes : Prefetch("news", "prefetch_bg", o)
    \/ \E o \in FetchOutcomes : Prefetch("bg", "launch", o)
    \/ \E ok \in BOOLEAN : LaunchBrowser(ok)
    \/ \E ok \in BOOLEAN : NewPage(ok)
    \/ \E ok \in BOOLEAN : CaughtStep("set_content", "wait_news", ok)
    \/ \E ok \in BOOLEAN : CaughtStep("wait_news", "wait_bg", ok)
    \/ \E ok \in BOOLEAN : CaughtStep("wait_bg", "settle", ok)
    \/ \E ok \in BOOLEAN : SettleDelay(ok)
    \/ \E ok \in BOOLEAN : Screenshot(ok)
    \/ \E ok \in BOOLEAN : CloseBrowser(ok)
    \/ ReportRender

SpecRes == Init /\ [][NextRes]_vars


\* ------------------------------------------------------------------
\* Properties of renderToFile
\* ------------------------------------------------------------------

Finished == rt.pc \in {"returned", "threw"}
Reporting == Finished /\ rt'.pc = "reported"

\* C11 as stated: after a failed image fetch, a surface that started
\* and captured means the job is reported DONE.
C11_FailedFetchDoneWhenCaptured ==
    [][(Reporting /\ rt.failedFetch /\ rt.shot) => rt'.report = "DONE"]_vars

\* C11: a failed fetch of an image URL never makes renderToFile throw:
\* when the fetch of the news image or of the background failed (through
\* the proxy or directly) and no step of the rendering surface failed,
\* launch, page, settle, screenshot and close, the handler reports DONE.
C11_FailedFetchStillDone ==
    [][(Reporting /\ rt.failedFetch /\ rt.broke = "none") => rt'.report = "DONE"]_vars

C11_Witness ==
    /\ rt.pc = "returned"
    /\ rt.failedFetch
    /\ rt.shot
    /\ rt.given.news = <<"https://", "example.com", "/photo", ".jpg">>
    /\ rt.news = rt.given.news

\* C13: normalizeImageUrl, fetchDriveViaApiIfNeeded and
\* prefetchRemoteImage never raise, and whenever one of them fails
\* (URL that does not parse, refused or failed request, stream error)
\* the value it returns is the URL it was given.
C13_ResolutionNeverRaises ==
    rt.ret.fn # "none" =>
        /\ ~rt.ret.raised
        /\ rt.ret.failed => rt.ret.val = rt.ret.arg

C13_Witness ==
    /\ rt.ret.fn = "prefetchRemoteImage"
    /\ rt.ret.env = "stream_error"
    /\ rt.ret.failed
    /\ rt.ret.val = rt.ret.arg
    /\ \E f \in disk : ~f.whole

\* C14: after a successful prefetch of a URL for a job and role, the
\* next resolution of that URL for the same job and role fetches
\* nothing and returns the reference of the cached file.
C14_SecondResolutionHitsCache ==
    (rt.ret.fn = "prefetchRemoteImage" /\ rt.ret.priorSame) =>
        /\ ~rt.ret.fetched
        /\ \E f \in disk : rt.ret.val = LocalRef(f.name)

\* C15: when an earlier job fetched a URL successfully for a role, the
\* resolution of that URL for the same role by a later job with another
\* id is a cache hit and fetches nothing.
C15_CacheSharedAcrossJobs ==
    (rt.ret.fn = "prefetchRemoteImage" /\ rt.ret.priorOther) =>
        /\ ~rt.ret.fetched
        /\ \E f \in disk : rt.ret.val = LocalRef(f.name)

\* C19: for a drive share link with a /d/<id>/ segment, with the proxy
\* configured and the Drive API healthy, fetchDriveViaApiIfNeeded gets the
\* bytes through /download, writes {jobId}-{role}-{id}{ext} and returns
\* the reference of that local copy.
C19_DriveLinkThroughProxy ==
    LET shared == IF rt.ret.role = "news" THEN rt.given.news ELSE rt.given.bg
    IN  ( /\ rt.ret.fn = "fetchDriveViaApiIfNeeded"
          /\ rt.ret.env = "healthy"
          /\ IsDriveHost(shared)
          /\ SegmentIds(shared) # {} ) =>
            \E x \in SegmentIds(shared) :
                /\ rt.ret.val = LocalRef(CacheName(rt.id, rt.ret.role, x, ".jpg"))
                /\ [name |-> CacheName(rt.id, rt.ret.role, x, ".jpg"), whole |-> TRUE] \in disk

\* C20: whenever renderToFile has returned or thrown, every browser it
\* launched has been closed.
C20_BrowserReleased ==
    rt.pc \in {"idle", "returned", "threw", "reported"} => browsers = 0


\* C12: in a healthy environment and under fair scheduling, every job
\* created with a valid headline is eventually DONE in the store with its
\* file {id}.png in the output directory, and no job is ever in ERROR.
C12_EveryJobEventuallyDone ==
    /\ \A j \in JobIds :
          (j \in Rows) ~> (j \in Rows /\ store[j].status = "DONE" /\ FileName(j) \in files)
    /\ [](\A j \in Rows : store[j].status # "ERROR")

retries == 6
delayMs == 2000

\* The loop condition of createWorkerWithRetry.
LoopsForever(i) == TRUE
LoopCond(i) == i < retries

\* The startup function calls createWorkerWithRetry().
CallCreate ==
    /\ boot.pc = "start"
    /\ boot' = [boot EXCEPT !.pc = "loop"]
    /\ UNCHANGED <<pvars, rvars, doc, dl, cfg, script, ui>>

\* for (let i = 0; i < retries; i++): another round, or the throw after the
\* loop.
LoopHead ==
    /\ boot.pc = "loop"
    /\ boot' = [boot EXCEPT !.pc = IF LoopCond(boot.i) THEN "create" ELSE "exhausted"]
    /\ UNCHANGED <<pvars, rvars, doc, dl, cfg, script, ui>>

\* new Worker(...) returns a worker, which createWorkerWithRetry returns
\* after registering its listeners, or throws.
CreateWorker(ok) ==
    /\ boot.pc = "create"
    /\ boot' = [boot EXCEPT !.pc = IF ok THEN "running" ELSE "caught",
                            !.attempts = @ + 1,
                            !.latest = IF ok THEN "ok" ELSE "threw"]
    /\ UNCHANGED <<pvars, rvars, doc, dl, cfg, script, ui>>

\* The catch block: log, and wait unless this was the last round.
Caught ==
    /\ boot.pc = "caught"
    /\ boot' = IF boot.i < retries - 1
               THEN [boot EXCEPT !.pc = "delay", !.delays = @ + 1]
               ELSE [boot EXCEPT !.pc = "loop", !.i = @ + 1]
    /\ UNCHANGED <<pvars, rvars, doc, dl, cfg, script, ui>>

\* The timer of delayMs fires.
DelayElapses ==
    /\ boot.pc = "delay"
    /\ boot' = [boot EXCEPT !.pc = "loop", !.i = @ + 1, !.waited = @ + delayMs]
    /\ UNCHANGED <<pvars, rvars, doc, dl, cfg, script, ui>>

\* The startup function catches 'Could not create worker after retries'
\* and calls process.exit(1).
ExitProcess ==
    /\ boot.pc = "exhausted"
    /\ boot' = [boot EXCEPT !.pc = "exited", !.code = 1]
    /\ UNCHANGED <<pvars, rvars, doc, dl, cfg, script, ui>>

BootStep ==
    \/ CallCreate
    \/ LoopHead
    \/ \E ok \in BOOLEAN : CreateWorker(ok)
    \/ Caught
    \/ DelayElapses
    \/ ExitProcess

\* Only a worker that was created takes payloads and runs handlers.
WorkerRuns ==
    /\ boot.pc = "running"
    /\ (Receive \/ HandlerStep)

NextBoot ==
    \/ BootStep
    \/ \E h \in {"", "A"}, e \in BOOLEAN : PostJobs(h, e)
    \/ WorkerRuns

\* Every step of the startup code is eventually taken (a timer fires, a
\* constructor returns or throws).
FairBoot == Init /\ [][NextBoot]_vars /\ WF_vars(BootStep)

\* C22: createWorkerWithRetry calls new Worker at most `retries` times, with
\* one delay of delayMs before every call but the first; the first call that
\* succeeds ends the loop and nothing further is attempted; when all calls
\* threw, the process has made exactly `retries` calls and exits with a
\* non-zero code; and startup always ends in one of the two ways.
C22_StartupTerminates ==
    /\ [](/\ boot.attempts <= retries
          /\ boot.waited = delayMs * (boot.delays - (IF boot.pc = "delay" THEN 1 ELSE 0))
          /\ boot.pc = "create" => boot.delays = boot.attempts
          /\ boot.pc = "running" <=> boot.latest = "ok"
          /\ boot.pc = "running" => boot.delays = boot.attempts - 1
          /\ boot.pc = "exited" =>
                /\ boot.attempts = retries
                /\ boot.latest = "threw"
                /\ boot.code # 0)
    /\ [][boot.pc \in {"running", "exited"} => boot' = boot]_vars
    /\ <>(boot.pc \in {"running", "exited"})

\* The third call of new Worker succeeded after two that threw.
C22_Witness ==
    /\ boot.pc = "running"
    /\ boot.attempts = 3
    /\ boot.delays = 2

\* ------------------------------------------------------------------
\* Order of the two resolutions inside renderToFile
\* ------------------------------------------------------------------

Other(role) == IF role = "news" THEN "bg" ELSE "news"

\* A call of a resolution function for the role starts.
ResolutionStarts(role) ==
    IF role = "news"
    THEN \/ \E o \in ProxyOutcomes : DriveFetch("news", "drive_bg", o)
         \/ \E o \in FetchOutcomes : Prefetch("news", "prefetch_bg", o)
    ELSE \/ \E o \in ProxyOutcomes : DriveFetch("bg", "prefetch_news", o)
         \/ \E o \in FetchOutcomes : Prefetch("bg", "launch", o)

\* The call for the role is the one renderToFile is at: it has not returned.
ResolutionPending(role) ==
    \/ rt.pc = "drive_" \o role /\ Includes(Url(role), "drive.google.com")
    \/ rt.pc = "prefetch_" \o role /\ Url(role) # <<>>

\* C23: the two resolutions of one job run concurrently: while the call
\* for one image has not returned, a call for the other image can start.
C23_ResolutionsOverlap ==
    \A role \in {"news", "bg"} :
        (ResolutionPending(role) /\ rt.news # <<>> /\ rt.bg # <<>>)
            => ENABLED ResolutionStarts(Other(role))

\* ------------------------------------------------------------------
\* Output files and stored fields over repeated deliveries
\* ------------------------------------------------------------------

\* The handler in slot s writes its job's output file in this step.
WritesOutput(s) == run[s].pc = "capture" /\ run'[s].pc = "close"

\* C24: the output file of a job id is written at most once over all
\* deliveries of the job: page.screenshot never writes {id}.png when that
\* file is already there.
C24_OutputWrittenOnce ==
    [][\A s \in Slots : WritesOutput(s) => FileName(run[s].job) \notin files]_vars

\* C25: in every Job Store state a job has an output URL only when its
\* status is DONE, and an error value only when its status is ERROR.
C25_OutputOnlyWhenDone ==
    \A j \in Rows :
        /\ store[j].outputUrl # NoUrl => store[j].status = "DONE"
        /\ store[j].error # NoError => store[j].status = "ERROR"

\* The queue hands job j to a handler in this step.
Receives(j) == \E s \in Slots : ~Busy(s) /\ run'[s].pc # "idle" /\ run'[s].job = j

\* C26: whenever the worker receives a job's payload, the job's stored
\* status is PENDING at that moment, also when the queue delivers a
\* payload more than once.
C26_PendingAtReceipt ==
    [][\A j \in Rows : Receives(j) => store[j].status = "PENDING"]_vars

\* ------------------------------------------------------------------
\* Cache hits of the resolution functions
\* ------------------------------------------------------------------

\* The latest resolution call returned a local reference without fetching.
CacheHit ==
    /\ rt.ret.fn \in {"fetchDriveViaApiIfNeeded", "prefetchRemoteImage"}
    /\ ~rt.ret.fetched
    /\ ~rt.ret.raised
    /\ rt.ret.val # rt.ret.arg
    /\ \E f \in disk : rt.ret.val = LocalRef(f.name)

\* C27: every reference returned as a cache hit points to a file whose
\* bytes were completely written.
C27_CacheHitIsWholeFile ==
    CacheHit => \A f \in disk : rt.ret.val = LocalRef(f.name) => f.whole

\* ------------------------------------------------------------------
\* templateHTML: the document built from a payload
\* ------------------------------------------------------------------

\* A string is a sequence of pieces: plain text, a complete tag, a character
\* reference, a double quote, text that reads as an attribute.
TextToks == {"a", "<b>", "&lt;", "\"", " onerror=x"}
Texts == UNION {[1..n -> TextToks] : n \in 1..MaxText}

\* The body of the template literal, with the logo taken as not found.
\* Each ${...} is replaced by the value as it is.
templateHTML(headline, backgroundUrl, newsImageUrl) ==
    <<"<div class=\"overlay\"></div>",
      "<div class=\"logo \"><span>Dhaka Heralds</span></div>">>
    \o (IF backgroundUrl # <<>>
        THEN <<"<img class=\"bgimg\" src=\"">> \o backgroundUrl
             \o <<"\" alt=\"background\"/>">>
        ELSE <<>>)
    \o <<"<div class=\"bg-vignette\"></div>", "<div class=\"date\">date</div>">>
    \o (IF newsImageUrl # <<>>
        THEN <<"<div class=\"card\"><img class=\"newsimg\" src=\"">> \o newsImageUrl
             \o <<"\"/></div>">>
        ELSE <<>>)
    \o <<"<div class=\"headline\">">> \o headline \o <<"</div>">>
    \o <<"<div class=\"cta\">Read More</div>">>

\* How an HTML parser reads one piece: in text, in a double-quoted attribute
\* value, or inside a tag after such a value.  It counts the elements and
\* attributes it creates and collects the text of the headline element.
ParsePiece(st, tok) ==
    CASE st.ctx = "text" ->
           CASE tok \in {"<div class=\"overlay\"></div>", "<div class=\"bg-vignette\"></div>",
                         "<div class=\"date\">date</div>", "<div class=\"cta\">Read More</div>"}
                  -> [st EXCEPT !.el = @ + 1, !.at = @ + 1]
             [] tok = "<div class=\"logo \"><span>Dhaka Heralds</span></div>"
                  -> [st EXCEPT !.el = @ + 2, !.at = @ + 1]
             [] tok = "<img class=\"bgimg\" src=\""
                  -> [st EXCEPT !.el = @ + 1, !.at = @ + 2, !.ctx = "value"]
             [] tok = "<div class=\"card\"><img class=\"newsimg\" src=\""
                  -> [st EXCEPT !.el = @ + 2, !.at = @ + 3, !.ctx = "value"]
             [] tok = "<div class=\"headline\">"
                  -> [st EXCEPT !.el = @ + 1, !.at = @ + 1, !.inHead = TRUE]
             [] tok \in {"</div>", "\"/></div>"} -> [st EXCEPT !.inHead = FALSE]
             [] tok = "<b>" -> [st EXCEPT !.el = @ + 1]
             [] tok = "&lt;" -> [st EXCEPT !.head = IF st.inHead THEN Append(@, "<") ELSE @]
             [] OTHER -> [st EXCEPT !.head = IF st.inHead THEN Append(@, tok) ELSE @]
      [] st.ctx = "value" ->
           CASE tok = "\"" -> [st EXCEPT !.ctx = "tag"]
             [] tok = "\" alt=\"background\"/>" -> [st EXCEPT !.at = @ + 1, !.ctx = "text"]
             [] tok = "\"/></div>" -> [st EXCEPT !.ctx = "text"]
             [] OTHER -> st
      [] OTHER ->
           CASE tok = "\"/></div>" -> [st EXCEPT !.ctx = "text"]
             [] tok \in {"<b>", "\" alt=\"background\"/>"}
                  -> [st EXCEPT !.at = @ + 1, !.ctx = "text"]
             [] OTHER -> [st EXCEPT !.at = @ + 1]

RECURSIVE ParseFrom(_, _, _)
ParseFrom(d, i, st) ==
    IF i > Len(d) THEN st ELSE ParseFrom(d, i + 1, ParsePiece(st, d[i]))
Parse(d) ==
    ParseFrom(d, 1, [ctx |-> "text", el |-> 0, at |-> 0, inHead |-> FALSE, head |-> <<>>])

InitDoc ==
    /\ InitPipeline
    /\ norm = NormIdle /\ rt = RtIdle /\ disk = {} /\ net = {} /\ browsers = 0
    /\ boot = BootIdle /\ dl = DlIdle /\ cfg = CfgIdle
    /\ script = ScriptIdle /\ ui = UiIdle
    /\ doc \in {[DocIdle EXCEPT !.pc = "given", !.headline = h,
                                !.backgroundUrl = b, !.newsImageUrl = n] :
                   h \in Texts,
                   b \in {<<>>, <<"a">>, <<"a", "\"", " onerror=x">>},
                   n \in {<<>>, <<"a">>, <<"a", "\"", " onerror=x">>}}

\* The argument of page.setContent:
\* templateHTML({ headline, backgroundUrl, newsImageUrl, ... })
Compose ==
    /\ doc.pc = "given"
    /\ doc' = [doc EXCEPT !.pc = "composed",
                          !.html = templateHTML(doc.headline, doc.backgroundUrl,
                                                doc.newsImageUrl)]
    /\ UNCHANGED <<pvars, rvars, boot, dl, cfg, script, ui>>

NextDoc == Compose

SpecDoc == InitDoc /\ [][NextDoc]_vars

\* The document of a payload with the same fields present and nothing but
\* plain text in them.
Plain(v) == IF v = <<>> THEN <<>> ELSE <<"a">>
PlainDoc == templateHTML(Plain(doc.headline), Plain(doc.backgroundUrl), Plain(doc.newsImageUrl))

\* C28: whatever the headline and the image references contain, the
\* composed document has the elements and attributes of the template and no
\* others, and the text of the headline element is the headline.
C28_InterpolationEscaped ==
    doc.pc = "composed" =>
        /\ Parse(doc.html).el = Parse(PlainDoc).el
        /\ Parse(doc.html).at = Parse(PlainDoc).at
        /\ Parse(doc.html).head = doc.headline

\* ------------------------------------------------------------------
\* GET /download as a client of the API sees it
\* ------------------------------------------------------------------

\* req.query.<name> for the values the parameter has in the query string,
\* in order: absent, the string, or an array when it occurs more than once.
QueryValue(vals) ==
    IF vals = <<>> THEN "undefined"
    ELSE IF Len(vals) = 1 THEN vals[1]
    ELSE "array"

\* Variant of Upstream: the drive flag is ignored.
UpstreamIgnoresFlag(url, drive, o) ==
    IF url = <<>> \/ ~Parses(url) THEN "none"
    ELSE IF url[1] \notin {"http://", "https://"} THEN "none"
    ELSE "fetch"

\* The upstream call the handler makes: none (it answers before any call),
\* drive.files.get of the Drive API, or the generic fetch(url).
Upstream(url, drive, o) ==
    IF url = <<>> \/ ~Parses(url) THEN "none"
    ELSE IF url[1] \notin {"http://", "https://"} THEN "none"
    ELSE IF Includes(Hostname(url), "drive.google.com") /\ drive
         THEN IF MatchD(Pathname(url)) = <<>> \/ o = "unconfigured" THEN "none"
              ELSE "drive"
    ELSE "fetch"

\* The requests of the study: the URLs of the payloads as given and as
\* normalized, and the drive parameter absent, once, or more than once.
DlUrls == PayloadUrls \cup {normalizeImageUrl(u) : u \in PayloadUrls}
DriveParams == {<<>>, <<"1">>, <<"0">>, <<"1", "1">>, <<"0", "1">>}

\* app.get('/download'): every path through the handler sends one response.
GetDownload(url, vals, o) ==
    /\ dl' = [pc |-> "answered", url |-> url, drive |-> vals, env |-> o,
              status |-> DownloadStatus(url, QueryValue(vals) = "1", o),
              via |-> Upstream(url, QueryValue(vals) = "1", o),
              sent |-> 1]
    /\ UNCHANGED <<pvars, rvars, boot, doc, cfg, script, ui>>

NextDl ==
    \E url \in DlUrls, vals \in DriveParams, o \in ProxyOutcomes \ {"neterr"} :
        GetDownload(url, vals, o)

SpecDl == Init /\ [][NextDl]_vars

\* The request is for a URL on the drive host and its query has drive=1.
DriveRequested ==
    /\ dl.pc = "answered"
    /\ Parses(dl.url)
    /\ dl.url[1] \in {"http://", "https://"}
    /\ Hostname(dl.url) = <<"drive.google.com">>
    /\ \E i \in 1..Len(dl.drive) : dl.drive[i] = "1"

Sources ==
    {Unset} \cup
    {[set |-> TRUE, val |-> v] :
        v \in {<<>>, <<"http://api">>, <<"http://api", "/">>, <<"/">>,
               <<"http://api", "/", "/">>}}

\* In the browser all three sources can be there; on the server there is
\* no document and no window.
Configs ==
    {[CfgIdle EXCEPT !.pc = "given", !.client = TRUE, !.meta = m, !.win = w, !.env = e] :
        m \in Sources, w \in Sources, e \in Sources}
    \cup {[CfgIdle EXCEPT !.pc = "given", !.env = e] : e \in Sources}

\* Variant of Trim: the value is returned as it is.
TrimNothing(raw) == raw

\* raw.replace(/\/$/, "")
Trim(raw) ==
    IF raw # <<>> /\ raw[Len(raw)] = "/" THEN SubSeq(raw, 1, Len(raw) - 1) ELSE raw

resolveApiBase(c) ==
    LET fromMeta == IF c.client /\ c.meta.set /\ c.meta.val # <<>> THEN c.meta.val ELSE <<>>
        fromWin == IF c.client /\ fromMeta = <<>> /\ c.win.set THEN c.win.val ELSE fromMeta
        fromEnv == IF fromWin = <<>> /\ c.env.set /\ c.env.val # <<>> THEN c.env.val
                   ELSE fromWin
    IN  Trim(fromEnv)

InitCfg ==
    /\ InitPipeline
    /\ norm = NormIdle /\ rt = RtIdle /\ disk = {} /\ net = {} /\ browsers = 0
    /\ boot = BootIdle /\ doc = DocIdle /\ dl = DlIdle
    /\ script = ScriptIdle /\ ui = UiIdle
    /\ cfg \in Configs

\* const API_BASE = useMemo(() => resolveApiBase(), [])
ResolveBase ==
    /\ cfg.pc = "given"
    /\ cfg' = [cfg EXCEPT !.pc = "resolved", !.base = resolveApiBase(cfg)]
    /\ UNCHANGED <<pvars, rvars, boot, doc, dl, script, ui>>

\* runResolveApiBaseTests, run once when the page module is loaded in the
\* browser.  addMeta sets the content of the api-base meta tag, creating the
\* tag when there is none; cleanupMeta removes the tag only when there was
\* none at the start; the global is assigned and then deleted.
runResolveApiBaseTests(c) ==
    IF ~c.client THEN c
    ELSE [c EXCEPT !.meta = IF c.meta.set
                             THEN [set |-> TRUE, val |-> <<"http://localhost:4000", "/">>]
                             ELSE Unset,
                   !.win = Unset]

RunTests ==
    /\ cfg.pc = "given"
    /\ cfg' = [runResolveApiBaseTests(cfg) EXCEPT !.pc = "tested",
                                                  !.before = resolveApiBase(cfg)]
    /\ UNCHANGED <<pvars, rvars, boot, doc, dl, script, ui>>

NextCfg == ResolveBase \/ RunTests

SpecCfg == InitCfg /\ [][NextCfg]_vars

\* A value without one trailing slash.
WithoutSlash(v) == IF v # <<>> /\ v[Len(v)] = "/" THEN SubSeq(v, 1, Len(v) - 1) ELSE v

\* C30 as stated: a non-empty meta tag wins, otherwise a string global,
\* otherwise the environment variable, otherwise the empty string; the
\* result is the chosen value without its trailing slash.
C30_FixedPrecedence ==
    cfg.pc = "resolved" =>
        cfg.base = WithoutSlash(
            IF cfg.client /\ cfg.meta.set /\ cfg.meta.val # <<>> THEN cfg.meta.val
            ELSE IF cfg.client /\ cfg.win.set THEN cfg.win.val
            ELSE IF cfg.env.set THEN cfg.env.val
            ELSE <<>>)

\* C30: a non-empty meta tag wins, otherwise a non-empty string global,
\* otherwise a non-empty environment variable, otherwise the empty string;
\* the result is the chosen value without its trailing slash.
C30_NonEmptyPrecedence ==
    cfg.pc = "resolved" =>
        cfg.base = WithoutSlash(
            IF cfg.client /\ cfg.meta.set /\ cfg.meta.val # <<>> THEN cfg.meta.val
            ELSE IF cfg.client /\ cfg.win.set /\ cfg.win.val # <<>> THEN cfg.win.val
            ELSE IF cfg.env.set /\ cfg.env.val # <<>> THEN cfg.env.val
            ELSE <<>>)

\* The global was chosen over the environment variable and trimmed.
C30_Witness ==
    /\ cfg.pc = "resolved"
    /\ ~cfg.meta.set
    /\ cfg.win = [set |-> TRUE, val |-> <<"http://api", "/">>]
    /\ cfg.env = [set |-> TRUE, val |-> <<"/">>]
    /\ cfg.base = <<"http://api">>

\* ------------------------------------------------------------------
\* What the reports of a delivery say about its render
\* ------------------------------------------------------------------

\* The handler in slot s sends the ERROR report in this step.
SendsError(s) == run[s].pc = "report_error" /\ run'[s].pc = "return"

\* C33: the worker sends the ERROR report for a delivery only when
\* renderToFile ran and threw in that delivery; a delivery whose render
\* returned the file name never sends it, whatever became of the PROCESSING
\* and DONE reports.
C33_ErrorOnlyWhenRenderThrew ==
    [][\A s \in Slots :
          SendsError(s) => run[s].renders > 0 /\ run[s].fileName = NoFile]_vars

\* ------------------------------------------------------------------
\* The write of the output file, step by step
\* ------------------------------------------------------------------

\* {id}.png while page.screenshot is writing it: the file is there, its
\* content is not complete.
Truncated(id) == <<id, ".png", "truncated">>

\* page.screenshot({ path: outPath }): the file is opened for writing, which
\* empties a file of that name, and then the image is written; a write that
\* fails leaves the file as far as it got.
WriteOutput(s) ==
    \/ /\ run[s].pc = "capture"
       /\ run' = [run EXCEPT ![s].pc = "writing"]
       /\ files' = (files \ {FileName(run[s].job)}) \cup {Truncated(run[s].job)}
       /\ UNCHANGED <<store, queue, last, stalls, xvars>>
    \/ /\ run[s].pc = "writing"
       /\ \E ok \in BOOLEAN :
             /\ run' = [run EXCEPT ![s].pc = IF ok THEN "close" ELSE "report_error"]
             /\ files' = IF ok
                         THEN (files \ {Truncated(run[s].job)}) \cup {FileName(run[s].job)}
                         ELSE files
       /\ UNCHANGED <<store, queue, last, stalls, xvars>>

\* The pipeline with the write of the output file as two steps.
NextWrite ==
    \/ \E h \in {"", "A"}, e \in BOOLEAN : PostJobs(h, e)
    \/ Receive
    \/ \E j \in JobIds : Redeliver(j)
    \/ \E s \in Slots :
        \/ \E o \in PutOutcomes : ReportProcessing(s, o)
        \/ Resolve(s)
        \/ \E ok \in BOOLEAN : Launch(s, ok)
        \/ Capture(s, FALSE)
        \/ WriteOutput(s)
        \/ \E ok \in BOOLEAN : Close(s, ok)
        \/ \E o \in PutOutcomes : ReportDone(s, o)
        \/ \E o \in PutOutcomes : ReportError(s, o)
        \/ Settle(s)

SpecWrite == Init /\ [][NextWrite]_vars

\* C34: in every reachable state a job whose stored status is DONE has its
\* output file {id}.png completely written in the output directory.
C34_DoneHasWholeFile ==
    \A j \in Rows : store[j].status = "DONE" => FileName(j) \in files

\* ------------------------------------------------------------------
\* Proxy fetch and generic prefetch of the same image
\* ------------------------------------------------------------------

\* The stage renderToFile is at, and the one that follows it.
StageAfter(pc) ==
    CASE pc = "drive_news" -> "drive_bg"
      [] pc = "drive_bg" -> "prefetch_news"
      [] pc = "prefetch_news" -> "prefetch_bg"
      [] pc = "prefetch_bg" -> "launch"
      [] OTHER -> pc

\* C35: the proxy stage of an image is always followed by its generic
\* prefetch, never the other way round; a proxy attempt that failed leaves
\* the URL as it was, so the prefetch is called with the same URL; the URL
\* is replaced before the prefetch only by the local reference of a proxy
\* attempt that did not fail; and the prefetch of an image that is set is
\* never skipped.
C35_PrefetchFollowsProxy ==
    [][ /\ rt.pc \in {"drive_news", "drive_bg", "prefetch_news", "prefetch_bg"}
            => rt'.pc = StageAfter(rt.pc)
        /\ \A role \in {"news", "bg"} :
            /\ rt.pc = "drive_" \o role =>
                  /\ rt'.ret.failed => Url(role) = (IF role = "news" THEN rt'.news ELSE rt'.bg)
                  /\ Url(role) # (IF role = "news" THEN rt'.news ELSE rt'.bg) =>
                        /\ rt'.ret.fn = "fetchDriveViaApiIfNeeded"
                        /\ ~rt'.ret.failed
                        /\ \E f \in disk' : rt'.ret.val = LocalRef(f.name)
            /\ rt.pc = "drive_bg" => rt'.news = rt.news
            /\ rt.pc = "prefetch_news" => rt'.bg = rt.bg
            /\ (rt.pc = "prefetch_" \o role /\ Url(role) # <<>>) =>
                  /\ rt'.ret.fn = "prefetchRemoteImage"
                  /\ rt'.ret.role = role
                  /\ rt'.ret.arg = Url(role) ]_vars

\* The generic prefetch fetched the drive URL of the news image after the
\* proxy attempt for it had failed.
C35_Witness ==
    /\ rt.pc = "prefetch_bg"
    /\ rt.given.bg = <<>>
    /\ rt.ret.fn = "prefetchRemoteImage"
    /\ rt.ret.role = "news"
    /\ Includes(rt.ret.arg, "drive.google.com")
    /\ rt.failedFetch
    /\ rt.ret.fetched
    /\ ~rt.ret.failed

\* ------------------------------------------------------------------
\* POST /jobs and the queue
\* ------------------------------------------------------------------

\* C36: a POST /jobs that creates a job (and answers 201) has put the
\* job's payload on the render queue's wait list.
C36_AcknowledgedIsEnqueued ==
    [][Len(store') > Len(store) =>
          \E i \in 1..Len(queue') : queue'[i] = Len(store')]_vars

\* C38: after the runtime smoke tests resolveApiBase returns what it
\* would have returned before them, for every configuration of the meta
\* tag and of the global.
C38_TestsLeaveConfigAlone ==
    cfg.pc = "tested" => resolveApiBase(cfg) = cfg.before

\* ------------------------------------------------------------------
\* The API container's boot script
\* ------------------------------------------------------------------

\* The defaults of DB_WAIT_RETRIES and of the generate loop.
MAX_RETRIES == 15
GEN_RETRIES == 3

\* Variant of AfterMigrate: a failed migration ends the script.
AfterMigrateFatal(ok) == IF ok THEN "start_api" ELSE "exit"

\* await execa('npm', ['run', 'prisma:migrate']) sits in a try block whose
\* catch only logs: the script goes on to start the server.
AfterMigrate(ok) == "start_api"

\* The script, one step per await: the connection check and its delay, the
\* generate attempts and their delay, the migration, the server.
BootScript ==
    \/ /\ script.pc = "wait_db"
       /\ script' = IF script.i < MAX_RETRIES
                    THEN [script EXCEPT !.pc = "check"]
                    ELSE [script EXCEPT !.pc = "start_api"]
       /\ UNCHANGED <<pvars, rvars, boot, doc, dl, cfg, ui>>
    \/ /\ script.pc = "check"
       /\ \E up \in BOOLEAN :
             script' = [script EXCEPT !.ok = up, !.checks = @ + 1,
                                      !.pc = IF up THEN "generate" ELSE "retry_delay"]
       /\ UNCHANGED <<pvars, rvars, boot, doc, dl, cfg, ui>>
    \/ /\ script.pc = "retry_delay"
       /\ script' = [script EXCEPT !.i = @ + 1, !.pc = "wait_db"]
       /\ UNCHANGED <<pvars, rvars, boot, doc, dl, cfg, ui>>
    \/ /\ script.pc = "generate"
       /\ IF script.g < GEN_RETRIES
          THEN \E done \in BOOLEAN :
                 script' = [script EXCEPT !.gens = @ + 1, !.genOk = done,
                                          !.pc = IF done THEN "migrate" ELSE "gen_delay"]
          ELSE script' = [script EXCEPT !.pc = "migrate"]
       /\ UNCHANGED <<pvars, rvars, boot, doc, dl, cfg, ui>>
    \/ /\ script.pc = "gen_delay"
       /\ script' = [script EXCEPT !.g = @ + 1, !.pc = "generate"]
       /\ UNCHANGED <<pvars, rvars, boot, doc, dl, cfg, ui>>
    \/ /\ script.pc = "migrate"
       /\ \E done \in BOOLEAN :
             script' = [script EXCEPT !.migrations = @ + 1,
                                      !.migrated = IF done THEN "ok" ELSE "failed",
                                      !.pc = AfterMigrate(done)]
       /\ UNCHANGED <<pvars, rvars, boot, doc, dl, cfg, ui>>
    \/ /\ script.pc = "start_api"
       /\ script' = [script EXCEPT !.started = @ + 1, !.pc = "serving"]
       /\ UNCHANGED <<pvars, rvars, boot, doc, dl, cfg, ui>>

\* Every await of the script settles: a connection attempt connects or
\* errors, a timer fires, a child process exits.
FairScript == Init /\ [][BootScript]_vars /\ WF_vars(BootScript)

\* C39: the script makes at most MAX_RETRIES connection checks and at most
\* GEN_RETRIES runs of prisma generate, runs the migration only after a
\* check that connected, and in every outcome ends by starting the server,
\* once.
C39_ScriptAlwaysStartsServer ==
    /\ [](/\ script.checks <= MAX_RETRIES
          /\ script.gens <= GEN_RETRIES
          /\ script.migrations <= 1
          /\ script.migrations > 0 => script.ok
          /\ script.started <= 1
          /\ script.started = 1 <=> script.pc = "serving")
    /\ <>(script.pc = "serving")

\* The server was started although generate failed three times and the
\* migration failed.
C39_Witness ==
    /\ script.pc = "serving"
    /\ script.ok
    /\ ~script.genOk
    /\ script.gens = GEN_RETRIES
    /\ script.migrated = "failed"

\* ------------------------------------------------------------------
\* The portal page (HomePage) and the API requests it makes
\* ------------------------------------------------------------------

\* Submits from the page and poll requests on the wire at one time.
MaxSubmits == 1
MaxPolls == 2
\* loadHistory requests on the wire at one time.
MaxLoads == 1

\* .slice(0, 10) of the history list, and ?limit=10 of loadHistory.
HISTORY_LIMIT == 10

\* What the API sends for a row: the job object (id and status are what the
\* page's state handling reads).
View(st, id) == [id |-> id, status |-> st[id].status]

\* app.get('/jobs'): findMany ordered by createdAt descending; the limit of
\* the query string is not read.
Listing(st, limit) == [k \in 1..Len(st) |-> View(st, Len(st) + 1 - k)]

\* stopPolling: clearInterval(pollTimer.current) and pollTimer.current = null.
stopPolling(u) ==
    IF u.pollTimer # 0
    THEN [u EXCEPT !.timers = {t \in @ : t.h # u.pollTimer}, !.pollTimer = 0]
    ELSE u

\* startPolling(jobId): stopPolling, then setInterval keeps its handle in
\* pollTimer.current. The handle is one no live interval has.
startPolling(u, jobId) ==
    LET v == stopPolling(u)
        h == CHOOSE n \in 1..(Cardinality(v.timers) + 1) : \A t \in v.timers : t.h # n
    IN  [v EXCEPT !.pollTimer = h, !.timers = @ \cup {[h |-> h, job |-> jobId]}]

\* seq.slice(0, n)
Slice(seq, n) == SubSeq(seq, 1, IF Len(seq) < n THEN Len(seq) ELSE n)

\* A request of the page on its way to the API, and the API's answer on its
\* way back. job is the id in the path of GET /jobs/:id; body is the JSON
\* array or, as a one-element sequence, the JSON object of the answer.
Request(kind, job) == [kind |-> kind, at |-> "api", job |-> job, body |-> <<>>]
Answer(m, body) == [m EXCEPT !.at = "ui", !.body = body]

\* The store a page can find when it is opened: n jobs of earlier sessions,
\* all DONE with their files but the latest, which is still PENDING.
Backlog(n) ==
    [k \in 1..n |-> IF k < n
                    THEN [status |-> "DONE", outputUrl |-> PublicUrl(FileName(k)),
                          error |-> NoError]
                    ELSE NewJob]

InitUi ==
    /\ \E n \in {0, HISTORY_LIMIT + 1} :
          /\ store = Backlog(n)
          /\ files = {FileName(k) : k \in 1..(n - 1)}
    /\ queue = <<>>
    /\ run = [s \in Slots |-> Idle]
    /\ last = [j \in JobIds |-> "none"]
    /\ stalls = 0
    /\ norm = NormIdle /\ rt = RtIdle /\ disk = {} /\ net = {} /\ browsers = 0
    /\ boot = BootIdle /\ doc = DocIdle /\ dl = DlIdle /\ cfg = CfgIdle
    /\ script = ScriptIdle /\ ui = UiIdle

\* The initial load effect: fetch(`${API_BASE}/jobs?limit=1`).
Mount ==
    /\ ui.pc = "idle"
    /\ ui' = [ui EXCEPT !.pc = "mounted", !.wire = {Request("latest", 0)}]
    /\ UNCHANGED <<pvars, rvars, boot, doc, dl, cfg, script>>

\* onSubmit with a headline: setSubmitting(true) and the POST. The submit
\* button is disabled while submitting.
Submit ==
    /\ ui.pc = "mounted"
    /\ ~ui.submitting
    /\ ui.sent < MaxSubmits
    /\ ui' = [ui EXCEPT !.submitting = TRUE, !.sent = @ + 1,
                        !.wire = @ \cup {Request("submit", 0)}]
    /\ UNCHANGED <<pvars, rvars, boot, doc, dl, cfg, script>>

\* The interval callback up to its fetch: GET /jobs/:id for the job the
\* interval was started with.
Tick ==
    /\ \E t \in ui.timers :
          /\ Cardinality({m \in ui.wire : m.kind = "poll"}) < MaxPolls
          /\ ui' = [ui EXCEPT !.wire = @ \cup {Request("poll", t.job)}]
    /\ UNCHANGED <<pvars, rvars, boot, doc, dl, cfg, script>>

\* The two history buttons. onToggleHistory flips showHistory and calls
\* loadHistory when the list is shown while empty; clearHistoryFromUI keeps
\* the latest job only and hides the list.
HistoryButtons ==
    /\ ui.pc = "mounted"
    /\ \/ /\ ~ui.showHistory /\ ui.jobs = <<>>
                => Cardinality({m \in ui.wire : m.kind = "history"}) < MaxLoads
          /\ ui' = [ui EXCEPT !.showHistory = ~@,
                              !.wire = IF ~ui.showHistory /\ ui.jobs = <<>>
                                       THEN @ \cup {Request("history", 0)}
                                       ELSE @]
       \/ ui' = [ui EXCEPT !.jobs = IF ui.latestJob # NoJob THEN <<ui.latestJob>> ELSE <<>>,
                           !.showHistory = FALSE]
    /\ UNCHANGED <<pvars, rvars, boot, doc, dl, cfg, script>>

\* The API handles a request of the page: GET /jobs, GET /jobs/:id, or
\* POST /jobs, which creates the row and enqueues its payload.
Serve ==
    \E m \in ui.wire :
        /\ m.at = "api"
        /\ \/ /\ m.kind = "latest"
              /\ ui' = [ui EXCEPT !.wire = (@ \ {m}) \cup {Answer(m, Listing(store, 1))}]
              /\ UNCHANGED <<store, queue>>
           \/ /\ m.kind = "history"
              /\ ui' = [ui EXCEPT !.wire = (@ \ {m}) \cup {Answer(m, Listing(store, HISTORY_LIMIT))}]
              /\ UNCHANGED <<store, queue>>
           \/ /\ m.kind = "poll"
              /\ ui' = [ui EXCEPT !.wire = (@ \ {m}) \cup {Answer(m, <<View(store, m.job)>>)}]
              /\ UNCHANGED <<store, queue>>
           \/ /\ m.kind = "submit"
              /\ store' = Append(store, NewJob)
              /\ queue' = Append(queue, Len(store) + 1)
              /\ ui' = [ui EXCEPT !.wire = (@ \ {m}) \cup {Answer(m, <<View(store', Len(store'))>>)}]
        /\ UNCHANGED <<run, last, stalls, files, rvars, boot, doc, dl, cfg, script>>

\* The page handles an answer: the .then of the initial load, the interval
\* callback after its fetch, onSubmit after its fetch, loadHistory.
Deliver ==
    \E m \in ui.wire :
        /\ m.at = "ui"
        /\ LET u == [ui EXCEPT !.wire = @ \ {m}]
               j == m.body[1]
           IN  \/ /\ m.kind = "latest"
                  /\ ui' = IF m.body = <<>> THEN u
                           ELSE IF j.status \notin {"DONE", "ERROR"}
                           THEN startPolling([u EXCEPT !.latestJob = j], j.id)
                           ELSE [u EXCEPT !.latestJob = j]
               \/ /\ m.kind = "poll"
                  /\ LET v == [u EXCEPT !.latestJob = j,
                                        !.jobs = Slice(<<j>> \o SelectSeq(@, LAMBDA x : x.id # j.id),
                                                      HISTORY_LIMIT),
                                        !.seen = @ \/ (j.id = u.polled /\ j.status \in {"DONE", "ERROR"})]
                     IN  ui' = IF j.status \in {"DONE", "ERROR"} THEN stopPolling(v) ELSE v
               \/ /\ m.kind = "submit"
                  /\ ui' = startPolling([u EXCEPT !.latestJob = j,
                                                  !.jobs = Slice(<<j>> \o @, HISTORY_LIMIT),
                                                  !.showHistory = FALSE,
                                                  !.submitting = FALSE,
                                                  !.polled = j.id,
                                                  !.seen = FALSE], j.id)
               \/ /\ m.kind = "history"
                  /\ ui' = [u EXCEPT !.jobs = m.body]
        /\ UNCHANGED <<pvars, rvars, boot, doc, dl, cfg, script>>

\* A fetch of the page fails (network error or a status that is not ok):
\* every caller leaves the state alone, and onSubmit's finally block runs.
Fail ==
    \E m \in ui.wire :
        /\ ui' = [ui EXCEPT !.wire = @ \ {m},
                            !.submitting = IF m.kind = "submit" THEN FALSE ELSE @]
        /\ UNCHANGED <<pvars, rvars, boot, doc, dl, cfg, script>>

\* The worker's reports as the API receives them, in the order the handler
\* sends them for one delivery: PROCESSING, then DONE or ERROR.
Report ==
    \E id \in Rows : \E body \in {ProcessingBody, DoneBody(FileName(id)), ErrorBody} :
        /\ store[id].status = (IF body = ProcessingBody THEN "PENDING" ELSE "PROCESSING")
        /\ store' = PutJob(store, id, body)
        /\ files' = IF body.status = "DONE" THEN files \cup {FileName(id)} ELSE files
        /\ UNCHANGED <<queue, run, last, stalls, xvars>>

NextUi == Mount \/ Submit \/ Tick \/ HistoryButtons \/ Serve \/ Deliver \/ Fail \/ Report

SpecUi == InitUi /\ [][NextUi]_vars

\* How far a status is along PENDING -> PROCESSING -> DONE/ERROR.
StatusRank(st) == CASE st = "PENDING" -> 0 [] st = "PROCESSING" -> 1 [] OTHER -> 2

\* The page handles the answer to a poll request in this step.
HandlesPoll == \E m \in ui.wire : m.kind = "poll" /\ m.at = "ui" /\ ui'.wire = ui.wire \ {m}

\* C31: when the page handles a poll answer for the job it shows, the
\* status it shows does not move back along PENDING -> PROCESSING ->
\* DONE/ERROR, and a shown DONE or ERROR does not change.
C31_DisplayOnlyMovesForward ==
    [][HandlesPoll /\ ui.latestJob # NoJob /\ ui'.latestJob.id = ui.latestJob.id
          => /\ StatusRank(ui'.latestJob.status) >= StatusRank(ui.latestJob.status)
             /\ ui.latestJob.status \in Terminal
                   => ui'.latestJob.status = ui.latestJob.status]_vars

\* C32: the history list holds at most HISTORY_LIMIT jobs, and no job id
\* twice.
C32_HistoryBoundedAndDistinct ==
    /\ Len(ui.jobs) <= HISTORY_LIMIT
    /\ \A a, b \in 1..Len(ui.jobs) : a # b => ui.jobs[a].id # ui.jobs[b].id

\* C37: at most one interval is live, and from the moment the page has
\* handled the answer to its submit of a job until a poll shows that job
\* DONE or ERROR, the live interval is one that polls that job.
C37_OneTimerPollsSubmittedJob ==
    /\ Cardinality(ui.timers) <= 1
    /\ ui.polled # 0 /\ ~ui.seen
          => \E t \in ui.timers : ui.timers = {t} /\ t.job = ui.polled /\ t.h = ui.pollTimer

====
